---------------------------- MODULE Spec2Model ----------------------------
(***************************************************************************)
(* A model of the TACRED data loader (src/data/loader.py) and of the       *)
(* unsort step of RelationModel.predict (src/model/rnn.py).                *)
(*                                                                         *)
(* Python lists are sequences (1-based here, 0-based in the source: an     *)
(* index i of the source is i+1 below).  A preprocessed example is the     *)
(* 8-tuple the source builds at loader.py:107:                             *)
(*   <<tokens, pos, ner, deprel, subj_positions, obj_positions,            *)
(*     inst_position, relation>>.                                          *)
(* random.shuffle and np.random.random are nondeterministic choices.       *)
(***************************************************************************)
EXTENDS Integers, Sequences, FiniteSets, TLC

-----------------------------------------------------------------------------
(* Bounds of the model. *)

\* longest sentence with varied tokens given to preprocess
MaxLen == 3
\* longest single-word sentence given to preprocess (position encoding)
MaxLongLen == 17
\* largest number of records in a data file given to the loader
MaxExamples == 3
\* largest batch_size given to the loader
MaxBatchSize == 2

-----------------------------------------------------------------------------
(* Program constants. *)

PAD == 0
PAD_ID == 0
UNK_ID == 1

\* vocab.word2id: a vocabulary that holds the entity masks, "the", "The" and
\* "cat"; "Zed" and "zed" are out of vocabulary.
word2id ==
    [w \in {"<PAD>", "<UNK>", "SUBJ-PERSON", "SUBJ-ORGANIZATION", "OBJ-PERSON",
            "OBJ-DATE", "the", "cat", "The"} |->
        CASE w = "<PAD>" -> 0
          [] w = "<UNK>" -> 1
          [] w = "SUBJ-PERSON" -> 2
          [] w = "SUBJ-ORGANIZATION" -> 3
          [] w = "OBJ-PERSON" -> 4
          [] w = "OBJ-DATE" -> 5
          [] w = "the" -> 6
          [] w = "cat" -> 7
          [] w = "The" -> 8]

POS_TO_ID ==
    [t \in {"<PAD>", "<UNK>", "NN", "DT", "NNP"} |->
        CASE t = "<PAD>" -> 0 [] t = "<UNK>" -> 1 [] t = "NN" -> 2
          [] t = "DT" -> 3 [] t = "NNP" -> 4]

NER_TO_ID ==
    [t \in {"<PAD>", "<UNK>", "O", "PERSON"} |->
        CASE t = "<PAD>" -> 0 [] t = "<UNK>" -> 1 [] t = "O" -> 2
          [] t = "PERSON" -> 3]

DEPREL_TO_ID ==
    [t \in {"<PAD>", "<UNK>", "ROOT", "det", "nsubj"} |->
        CASE t = "<PAD>" -> 0 [] t = "<UNK>" -> 1 [] t = "ROOT" -> 2
          [] t = "det" -> 3 [] t = "nsubj" -> 4]

LABEL_TO_ID ==
    [r \in {"no_relation", "per:title", "org:founded"} |->
        CASE r = "no_relation" -> 0 [] r = "per:title" -> 1
          [] r = "org:founded" -> 2]

\* str.lower on the words of the model
lower ==
    [w \in {"The", "the", "cat", "Zed"} |->
        CASE w = "The" -> "the" [] w = "the" -> "the" [] w = "cat" -> "cat"
          [] w = "Zed" -> "zed"]

\* 'SUBJ-' + subj_type
SubjMask ==
    [t \in {"PERSON", "ORGANIZATION"} |->
        IF t = "PERSON" THEN "SUBJ-PERSON" ELSE "SUBJ-ORGANIZATION"]

\* 'OBJ-' + obj_type
ObjMask ==
    [t \in {"PERSON", "DATE"} |-> IF t = "PERSON" THEN "OBJ-PERSON" ELSE "OBJ-DATE"]

-----------------------------------------------------------------------------
(* Python list helpers. *)

\* list(range(a, b))
Range(a, b) == [k \in 1..(IF b > a THEN b - a ELSE 0) |-> a + k - 1]

\* [x] * n
Repeat(x, n) == [k \in 1..(IF n > 0 THEN n ELSE 0) |-> x]

Min(a, b) == IF a < b THEN a ELSE b

Max(a, b) == IF a < b THEN b ELSE a

\* a slice assignment that inserts repl at lo and removes nothing
SliceInsert(s, lo, hi, repl) ==
    SubSeq(s, 1, Min(lo, Len(s))) \o repl \o SubSeq(s, Min(lo, Len(s)) + 1, Len(s))

\* s[lo:hi] = repl for 0 <= lo, 0 <= hi: the slice bounds are clamped to len(s)
SliceAssign(s, lo, hi, repl) ==
    LET n  == Len(s)
        l0 == Min(lo, n)
        h0 == Max(Min(hi, n), l0)
    IN  SubSeq(s, 1, l0) \o repl \o SubSeq(s, h0 + 1, n)

\* max(len(x) for x in tokens_list), for a non-empty tokens_list
MaxLength(tokens_list) ==
    CHOOSE m \in {Len(tokens_list[i]) : i \in 1..Len(tokens_list)} :
        \A i \in 1..Len(tokens_list) : Len(tokens_list[i]) <= m

-----------------------------------------------------------------------------
(* The module-level functions of loader.py. *)

map_to_ids(tokens, vocab) ==
    [i \in 1..Len(tokens) |->
        IF tokens[i] \in DOMAIN vocab THEN vocab[tokens[i]] ELSE UNK_ID]

get_positions(start_idx, end_idx, length) ==
    Range(-start_idx, 0) \o Repeat(0, end_idx - start_idx + 1)
        \o Range(1, length - end_idx)

\* math.ceil(math.log(n, 2)) for n >= 1: the least k with 2^k >= n.  (The
\* float quotient log(n)/log(2) is exact enough for this for every n below
\* 2^29, far above any sentence length.)
RECURSIVE CeilLog2From(_, _, _)
CeilLog2From(n, k, p) == IF p >= n THEN k ELSE CeilLog2From(n, k + 1, 2 * p)

\* math.floor in place of math.ceil
FloorLog2(n) == CeilLog2From(n + 1, 0, 1) - 1

CeilLog2(n) == CeilLog2From(n, 0, 1)

Abs(x) == IF x < 0 THEN -x ELSE x

\* the loop "reverse positives" of relativate_word_positions
RECURSIVE ReversePositives(_)
ReversePositives(new_list) ==
    IF new_list = <<>> THEN <<>>
    ELSE IF Head(new_list) = 0 THEN new_list
    ELSE <<-Head(new_list)>> \o ReversePositives(Tail(new_list))

relativate_word_positions(positions_list) ==
    LET new_list == [i \in 1..Len(positions_list) |->
                        CeilLog2(Abs(positions_list[i]) + 1)]
    IN  ReversePositives(new_list)

\* preprocess, for one record d and the option opt['lower']
PreprocessRecord(d, optLower) ==
    LET tokens0 == IF optLower THEN [i \in 1..Len(d.token) |-> lower[d.token[i]]]
                   ELSE d.token
        ss == d.subj_start
        se == d.subj_end
        os == d.obj_start
        oe == d.obj_end
        tokens1 == SliceAssign(tokens0, ss, se + 1,
                               Repeat(SubjMask[d.subj_type], se - ss + 1))
        tokens2 == SliceAssign(tokens1, os, oe + 1,
                               Repeat(ObjMask[d.obj_type], oe - os + 1))
        tokens == map_to_ids(tokens2, word2id)
        pos == map_to_ids(d.stanford_pos, POS_TO_ID)
        ner == map_to_ids(d.stanford_ner, NER_TO_ID)
        deprel == map_to_ids(d.stanford_deprel, DEPREL_TO_ID)
        l == Len(tokens)
        inst_position == [i \in 1..l |-> IF tokens[i] # PAD THEN i ELSE 0]
        subj_positions ==
            relativate_word_positions(get_positions(d.subj_start, d.subj_end, l))
        obj_positions ==
            relativate_word_positions(get_positions(d.obj_start, d.obj_end, l))
        relation == LABEL_TO_ID[d.relation]
    IN  <<tokens, pos, ner, deprel, subj_positions, obj_positions,
          inst_position, relation>>

preprocess(data, optLower) ==
    [i \in 1..Len(data) |-> PreprocessRecord(data[i], optLower)]


\* id2label = dict([(v,k) for k,v in constant.LABEL_TO_ID.items()])
id2label ==
    [v \in {LABEL_TO_ID[k] : k \in DOMAIN LABEL_TO_ID} |->
        CHOOSE k \in DOMAIN LABEL_TO_ID : LABEL_TO_ID[k] = v]

\* range(a, n, step), step >= 1
RECURSIVE RangeStep(_, _, _)
RangeStep(a, n, step) ==
    IF a >= n THEN <<>> ELSE <<a>> \o RangeStep(a + step, n, step)

\* batching that keeps the full batches only
ChunkFullOnly(examples, bsize) ==
    [k \in 1..(Len(examples) \div bsize) |->
        SubSeq(examples, (k - 1) * bsize + 1, k * bsize)]

\* [data[i:i+batch_size] for i in range(0, len(data), batch_size)]
Chunk(examples, bsize) ==
    LET starts == RangeStep(0, Len(examples), bsize)
    IN  [k \in 1..Len(starts) |->
            SubSeq(examples, starts[k] + 1, Min(starts[k] + bsize, Len(examples)))]

\* list(zip(*batch)): field f of every example of the batch
ZipStar(batch) == [f \in 1..8 |-> [j \in 1..Len(batch) |-> batch[j][f]]]

\* a comparison of the lengths alone
TupleLessByLen(a, b) == a[1] < b[1]

\* Python's < on the tuples sort_all sorts: (len, original index, fields...).
\* The original indices differ, so the comparison never reaches the fields.
TupleLess(a, b) == a[1] < b[1] \/ (a[1] = b[1] /\ a[2] < b[2])

\* sorted(rows, reverse=True): the greatest row first; among equal rows the
\* earliest stays first (the sort is stable)
RECURSIVE SortedReverse(_)
SortedReverse(rows) ==
    IF rows = <<>> THEN <<>>
    ELSE LET m == CHOOSE i \in 1..Len(rows) :
                      /\ \A j \in 1..Len(rows) : ~TupleLess(rows[i], rows[j])
                      /\ \A j \in 1..(i - 1) : TupleLess(rows[j], rows[i])
         IN  <<rows[m]>> \o
             SortedReverse(SubSeq(rows, 1, m - 1) \o SubSeq(rows, m + 1, Len(rows)))

\* sort_all(batch, lens): <<the eight fields sorted, the original indices>>
sort_all(batch, lens) ==
    LET unsorted == [j \in 1..Len(lens) |->
                        <<lens[j], j - 1>> \o [f \in 1..8 |-> batch[f][j]]]
        srt == SortedReverse(unsorted)
        sorted_all == [c \in 1..10 |-> [k \in 1..Len(srt) |-> srt[k][c]]]
    IN  <<SubSeq(sorted_all, 3, 10), sorted_all[2]>>

\* a tensor as wide as the last sequence, the longer ones cut
get_long_tensor_cut(tokens_list, bsize) ==
    [i \in 1..bsize |->
        [j \in 1..Len(tokens_list[Len(tokens_list)]) |->
            IF j <= Len(tokens_list[i]) THEN tokens_list[i][j] ELSE PAD_ID]]

\* get_long_tensor(tokens_list, batch_size): a batch_size x token_len matrix
\* filled with PAD_ID, row i overwritten from its start by tokens_list[i].
\* (Called with batch_size = len(tokens_list) only.)
get_long_tensor(tokens_list, bsize) ==
    LET token_len == MaxLength(tokens_list)
    IN  [i \in 1..bsize |->
            [j \in 1..token_len |->
                IF i <= Len(tokens_list) /\ j <= Len(tokens_list[i])
                THEN tokens_list[i][j] ELSE PAD_ID]]

\* dropout that replaces by <PAD>
word_dropout_pad(sents, dropout) ==
    {[k \in 1..Len(sents) |->
        [i \in 1..Len(sents[k]) |->
            IF <<k, i>> \in S THEN PAD_ID ELSE sents[k][i]]] :
     S \in SUBSET {p \in (1..Len(sents)) \X (1..MaxLength(sents)) :
                      p[2] <= Len(sents[p[1]]) /\ dropout > 0}}

\* word_dropout over the sentences of a batch: every outcome the draws of
\* np.random.random() allow.  A token other than <UNK> becomes <UNK> when its
\* draw is below dropout: never for dropout = 0.
word_dropout(sents, dropout) ==
    LET droppable == IF dropout > 0
                     THEN {p \in (1..Len(sents)) \X (1..MaxLength(sents)) :
                              /\ p[2] <= Len(sents[p[1]])
                              /\ sents[p[1]][p[2]] # UNK_ID}
                     ELSE {}
    IN  {[k \in 1..Len(sents) |->
            [i \in 1..Len(sents[k]) |->
                IF <<k, i>> \in S THEN UNK_ID ELSE sents[k][i]]] :
         S \in SUBSET droppable}

\* torch.eq(words, 0)
Masks(words) == [i \in 1..Len(words) |-> [j \in 1..Len(words[i]) |-> words[i][j] = 0]]

-----------------------------------------------------------------------------
(* The inputs. *)

\* the tags the annotation pipeline gives the words of the model
PosTag ==
    [w \in {"The", "the", "cat", "Zed"} |->
        CASE w = "The" -> "DT" [] w = "the" -> "DT" [] w = "cat" -> "NN"
          [] w = "Zed" -> "NNP"]

NerTag == [w \in {"The", "the", "cat", "Zed"} |-> IF w = "Zed" THEN "PERSON" ELSE "O"]

DeprelTag(i) == IF i = 1 THEN "ROOT" ELSE IF i = 2 THEN "det" ELSE "nsubj"

\* a TACRED record d (a JSON object of the data file); spans are 0-based
Record(toks, ss, se, os, oe, st, ot, rel) ==
    [token |-> toks,
     subj_start |-> ss, subj_end |-> se, obj_start |-> os, obj_end |-> oe,
     subj_type |-> st, obj_type |-> ot,
     stanford_pos |-> [i \in 1..Len(toks) |-> PosTag[toks[i]]],
     stanford_ner |-> [i \in 1..Len(toks) |-> NerTag[toks[i]]],
     stanford_deprel |-> [i \in 1..Len(toks) |-> DeprelTag(i)],
     relation |-> rel]

\* the spans <<start, end>> of a sentence of length l: 0 <= start <= end < l
Spans(l) == {sp \in (0..(l - 1)) \X (0..(l - 1)) : sp[1] <= sp[2]}

\* records of up to MaxLen varied words, every pair of spans, every type
VariedRecords ==
    UNION {{Record(toks, s[1], s[2], o[1], o[2], st, ot, "per:title") :
                toks \in [1..l -> {"The", "Zed"}],
                s \in Spans(l), o \in Spans(l),
                st \in {"PERSON", "ORGANIZATION"}, ot \in {"PERSON", "DATE"}} :
           l \in 1..MaxLen}

\* records of up to MaxLongLen equal words, every subject span, the object
\* span being the subject span counted from the end of the sentence
LongRecords ==
    UNION {{Record([i \in 1..l |-> "cat"], s[1], s[2], l - 1 - s[2], l - 1 - s[1],
                   "PERSON", "DATE", "no_relation") :
                s \in Spans(l)} :
           l \in 1..MaxLongLen}

\* the input of the docstring of relativate_word_positions
DocInput == <<0, 1, 2, 3, 4, 5, 5, 6>>

\* the output the docstring of relativate_word_positions gives for it
DocOutput == <<0, 1, 2, 3, 3, 4, 4, 4>>

\* position lists given to relativate_word_positions on its own
PositionInputs ==
    {DocInput} \cup
    UNION {{get_positions(s[1], s[2], l) : s \in Spans(l)} : l \in 1..MaxLen}

\* the records the data files given to the loader are made of: sentences of
\* one and two tokens, two of the same length, with different relations; in
\* each the subject and the object are the same token, and the other token of
\* the two-token sentences is out of vocabulary
Corpus ==
    {Record(<<"Zed">>, 0, 0, 0, 0, "PERSON", "DATE", "no_relation"),
     Record(<<"The", "Zed">>, 0, 0, 0, 0, "PERSON", "DATE", "per:title"),
     Record(<<"Zed", "cat">>, 1, 1, 1, 1, "ORGANIZATION", "PERSON", "org:founded")}

\* the data files: up to MaxExamples records of the corpus
Files == UNION {[1..n -> Corpus] : n \in 0..MaxExamples}

\* opt['word_dropout'], in percent
DropoutRates == {0, 4}

\* the keys given to __getitem__: ints (bool is a subclass of int: True is 1)
\* and values of other types
Keys ==
    [type : {"int"}, val : (-1)..MaxExamples]
        \cup [type : {"bool"}, val : {1}]
        \cup [type : {"str", "float"}, val : {0}]

\* <<evaluation, opt>>: evaluation, which reads no opt['word_dropout'], and
\* training with each dropout rate
Modes ==
    {<<TRUE, [lower |-> FALSE, word_dropout |-> 0]>>} \cup
    {<<FALSE, [lower |-> FALSE, word_dropout |-> r]>> : r \in DropoutRates}

\* isinstance(key, int)
IsInt(key) == key.type \in {"int", "bool"}

\* the permutations random.shuffle can leave in indices
Shuffles(n) == {p \in [1..n -> 1..n] : \A i, j \in 1..n : p[i] = p[j] => i = j}

-----------------------------------------------------------------------------
(* The state. *)

VARIABLES
    pc,             \* where the program is
    file,           \* the records of the data file (json.load)
    opt,            \* opt['lower'], opt['word_dropout']
    batch_size,     \* DataLoader.batch_size
    evaluation,     \* DataLoader.eval
    data,           \* DataLoader.data: the batches
    labels,         \* DataLoader.labels
    num_examples,   \* DataLoader.num_examples
    ret,            \* the outcome of the last __getitem__ (a batch or an exception)
    gen,            \* the generator of __iter__: its i and whether it has ended
    pred,           \* the outcome of the last RelationModel.predict
    processed,      \* the list preprocess returned
    positions_list, \* the argument of relativate_word_positions
    new_list_final  \* the list relativate_word_positions returned

vars == <<pc, file, opt, batch_size, evaluation, data, labels, num_examples,
          ret, gen, pred, processed, positions_list, new_list_final>>

None == [status |-> "none"]

NoGen == [i |-> -1, ended |-> FALSE]

-----------------------------------------------------------------------------
(* DataLoader. *)

\* the examples after "shuffle for training": data = [data[i] for i in indices]
Shuffled(examples, indices) == [i \in 1..Len(examples) |-> examples[indices[i]]]

\* labels read from the records in file order
LabelsOfFile(examples) == [i \in 1..Len(examples) |-> file[i].relation]

\* self.labels = [id2label[d[-1]] for d in data]
Labels(examples) == [i \in 1..Len(examples) |-> id2label[examples[i][8]]]

\* DataLoader.gold
gold == labels

\* DataLoader.__len__
len == Len(data)

\* a lower bound check that refuses index 0
GetItemStatusFromOne(key) ==
    IF ~IsInt(key) THEN "TypeError"
    ELSE IF key.val <= 0 \/ key.val >= Len(data) THEN "IndexError"
    ELSE "ok"

\* the exception __getitem__(key) raises, or "ok"
GetItemStatus(key) ==
    IF ~IsInt(key) THEN "TypeError"
    ELSE IF key.val < 0 \/ key.val >= Len(data) THEN "IndexError"
    ELSE "ok"

\* the batch __getitem__(key) returns for a key it accepts, the words of the
\* sorted batch being w after word dropout.  batch (the fields sort_all
\* returned) and words_list (words before get_long_tensor) are its locals.
Batch(key, w) ==
    LET bsize == Len(data[key.val + 1])
        batch == sort_all(ZipStar(data[key.val + 1]),
                          [j \in 1..bsize |-> Len(data[key.val + 1][j][1])])
        words == get_long_tensor(w, bsize)
    IN  [status |-> "ok", key |-> key, batch |-> batch[1], words_list |-> w,
         words |-> words,
         masks |-> Masks(words),
         pos |-> get_long_tensor(batch[1][2], bsize),
         ner |-> get_long_tensor(batch[1][3], bsize),
         deprel |-> get_long_tensor(batch[1][4], bsize),
         subj_positions |-> get_long_tensor(batch[1][5], bsize),
         obj_positions |-> get_long_tensor(batch[1][6], bsize),
         src_pos |-> get_long_tensor(batch[1][7], bsize),
         rels |-> batch[1][8],
         orig_idx |-> batch[2]]

\* the words of the sorted batch: dropped out in training, as they are in
\* evaluation
Words(key) ==
    LET bsize == Len(data[key.val + 1])
        batch == sort_all(ZipStar(data[key.val + 1]),
                          [j \in 1..bsize |-> Len(data[key.val + 1][j][1])])
    IN  IF ~evaluation THEN word_dropout(batch[1][1], opt.word_dropout)
        ELSE {batch[1][1]}

\* every outcome of __getitem__(key)
getitem(key) ==
    IF GetItemStatus(key) # "ok" THEN {[status |-> GetItemStatus(key), key |-> key]}
    ELSE {Batch(key, w) : w \in Words(key)}

\* DataLoader.__init__: preprocess, shuffle for training, labels, batches
Construct ==
    /\ pc = "start"
    /\ \E indices \in (IF ~evaluation THEN Shuffles(Len(file))
                       ELSE {[i \in 1..Len(file) |-> i]}) :
          LET examples == Shuffled(preprocess(file, opt.lower), indices)
          IN  /\ labels' = Labels(examples)
              /\ num_examples' = Len(examples)
              /\ data' = Chunk(examples, batch_size)
    /\ pc' = "ready"
    /\ UNCHANGED <<file, opt, batch_size, evaluation, ret, gen, pred, processed,
                   positions_list, new_list_final>>

\* DataLoader.__getitem__(key), called on the loader as constructed.  (The
\* call writes nothing of the loader, so a second call would find the state
\* of the first.)
GetItem ==
    /\ pc = "ready"
    /\ ret = None
    /\ \E key \in Keys : \E r \in getitem(key) : ret' = r
    /\ pred' = None
    /\ UNCHANGED <<pc, file, opt, batch_size, evaluation, data, labels,
                   num_examples, gen, processed, positions_list, new_list_final>>

\* DataLoader.__iter__ on the loader as constructed: a new generator, not
\* yet run
Iter ==
    /\ pc = "ready"
    /\ ret = None
    /\ pc' = "iterating"
    /\ gen' = [i |-> 0, ended |-> FALSE]
    /\ ret' = None
    /\ pred' = None
    /\ UNCHANGED <<file, opt, batch_size, evaluation, data, labels, num_examples,
                   processed, positions_list, new_list_final>>

\* next() on the generator: yield self.__getitem__(i), or end after
\* range(self.__len__())
IterNext ==
    /\ pc = "iterating"
    /\ IF gen.i < len
       THEN /\ \E r \in getitem([type |-> "int", val |-> gen.i]) : ret' = r
            /\ gen' = [gen EXCEPT !.i = gen.i + 1]
            /\ pc' = pc
       ELSE /\ gen' = [gen EXCEPT !.ended = TRUE]
            /\ pc' = "exhausted"
            /\ ret' = ret
    /\ pred' = None
    /\ UNCHANGED <<file, opt, batch_size, evaluation, data, labels, num_examples,
                   processed, positions_list, new_list_final>>

-----------------------------------------------------------------------------
(* RelationModel.predict. *)

\* The output of the network for row k of a batch.  The network is not
\* modelled: its output for a row is the term made of the row's inputs, which
\* any function of the row factors through.
Logits(batch, k) ==
    <<batch.words[k], batch.masks[k], batch.pos[k], batch.ner[k], batch.deprel[k],
      batch.subj_positions[k], batch.obj_positions[k], batch.src_pos[k]>>

\* no sort
Unsorted(rows) == rows

\* sorted(rows): ascending in the first component (the original indices,
\* which differ)
RECURSIVE Sorted(_)
Sorted(rows) ==
    IF rows = <<>> THEN <<>>
    ELSE LET m == CHOOSE i \in 1..Len(rows) :
                      /\ \A j \in 1..Len(rows) : rows[i][1] <= rows[j][1]
                      /\ \A j \in 1..(i - 1) : rows[i][1] < rows[j][1]
         IN  <<rows[m]>> \o
             Sorted(SubSeq(rows, 1, m - 1) \o SubSeq(rows, m + 1, Len(rows)))

\* predict(batch, unsort): <<predictions, probs>>
predict(batch, unsort) ==
    LET n == Len(batch.words)
        predictions == [k \in 1..n |-> [argmax |-> Logits(batch, k)]]
        probs == [k \in 1..n |-> [softmax |-> Logits(batch, k)]]
        srt == Sorted([k \in 1..n |-> <<batch.orig_idx[k], predictions[k], probs[k]>>])
    IN  IF unsort
        THEN <<[k \in 1..n |-> srt[k][2]], [k \in 1..n |-> srt[k][3]]>>
        ELSE <<predictions, probs>>

\* RelationModel.predict on the batch __getitem__ returned
Predict ==
    /\ pc = "ready"
    /\ ret.status = "ok"
    /\ pred = None
    /\ \E unsort \in BOOLEAN :
          pred' = [status |-> "ok", unsort |-> unsort,
                   predictions |-> predict(ret, unsort)[1],
                   probs |-> predict(ret, unsort)[2]]
    /\ UNCHANGED <<pc, file, opt, batch_size, evaluation, data, labels,
                   num_examples, ret, gen, processed, positions_list,
                   new_list_final>>

Init ==
    /\ pc = "start"
    /\ file \in Files
    /\ batch_size \in 1..MaxBatchSize
    /\ \E m \in Modes : evaluation = m[1] /\ opt = m[2]
    /\ data = <<>>
    /\ labels = <<>>
    /\ num_examples = 0
    /\ ret = None
    /\ gen = NoGen
    /\ pred = None
    /\ processed = <<>>
    /\ positions_list = <<>>
    /\ new_list_final = <<>>

Next == Construct \/ GetItem \/ Iter \/ IterNext \/ Predict

Spec == Init /\ [][Next]_vars

-----------------------------------------------------------------------------
(* preprocess and relativate_word_positions on their own. *)

PreprocessCall ==
    /\ pc = "record"
    /\ processed' = preprocess(file, opt.lower)
    /\ pc' = "preprocessed"
    /\ UNCHANGED <<file, opt, batch_size, evaluation, data, labels, num_examples,
                   ret, gen, pred, positions_list, new_list_final>>

RelativateCall ==
    /\ pc = "positions"
    /\ new_list_final' = relativate_word_positions(positions_list)
    /\ pc' = "relativated"
    /\ UNCHANGED <<file, opt, batch_size, evaluation, data, labels, num_examples,
                   ret, gen, pred, processed, positions_list>>

InitPre ==
    /\ \/ /\ pc = "record"
          /\ file \in {<<d>> : d \in VariedRecords \cup LongRecords}
          /\ opt \in [lower : BOOLEAN, word_dropout : {0}]
          /\ positions_list = <<>>
       \/ /\ pc = "positions"
          /\ file = <<>>
          /\ opt = [lower |-> FALSE, word_dropout |-> 0]
          /\ positions_list \in PositionInputs
    /\ batch_size = 1
    /\ evaluation = TRUE
    /\ data = <<>>
    /\ labels = <<>>
    /\ num_examples = 0
    /\ ret = None
    /\ gen = NoGen
    /\ pred = None
    /\ processed = <<>>
    /\ new_list_final = <<>>

NextPre == PreprocessCall \/ RelativateCall

SpecPre == InitPre /\ [][NextPre]_vars

-----------------------------------------------------------------------------
(* Properties of preprocess (SpecPre). *)

\* k = ceil(log2(n)), for n >= 1
IsCeilLog2(n, k) == k >= 0 /\ 2^k >= n /\ (k = 0 \/ 2^(k - 1) < n)

\* ps has length l and is the signed logarithmic compression of the distance
\* to the span [start, end]
LogCompressed(ps, start, end, l) ==
    /\ Len(ps) = l
    /\ \A i \in 0..(l - 1) :
          /\ i < start => ps[i + 1] <= 0 /\ IsCeilLog2(start - i + 1, -ps[i + 1])
          /\ (start <= i /\ i <= end) => ps[i + 1] = 0
          /\ i > end => IsCeilLog2(i - end + 1, ps[i + 1])

\* C1: for every record with 0 <= start <= end < l, the subject and the
\* object position sequences preprocess produces have length l and are, at
\* token i, -ceil(log2(start-i+1)) before the span, 0 in it and
\* +ceil(log2(i-end+1)) after it.
C1_PositionsLogCompressed ==
    pc = "preprocessed" =>
        \A r \in 1..Len(file) :
            /\ LogCompressed(processed[r][5], file[r].subj_start, file[r].subj_end,
                             Len(file[r].token))
            /\ LogCompressed(processed[r][6], file[r].obj_start, file[r].obj_end,
                             Len(file[r].token))

\* a sentence of 17 tokens whose subject is the last token and whose object
\* is the first: the distances reach 16, the positions -5 and 5
C1_Witness ==
    /\ pc = "preprocessed"
    /\ Len(file[1].token) = 17
    /\ file[1].subj_start = 16
    /\ processed[1][5][1] = -5
    /\ processed[1][5][14] = -2
    /\ processed[1][6][17] = 5

\* C2: relativate_word_positions applied to [0,1,2,3,4,5,5,6] returns
\* [0,1,2,3,3,4,4,4], as its docstring states.
C2_DocstringExample ==
    (pc = "relativated" /\ positions_list = DocInput) => new_list_final = DocOutput

\* the vocabulary id of a token, <UNK> for a token the vocabulary lacks
IdOf(t) == IF t \in DOMAIN word2id THEN word2id[t] ELSE UNK_ID

\* C8: for every record (its spans inside the sentence), the word ids
\* preprocess produces are as many as the tokens; a position in the object
\* span holds the id of 'OBJ-'+obj_type, a position in the subject span and
\* not in the object span the id of 'SUBJ-'+subj_type, any other position the
\* id of the token (lowercased when opt['lower'] is set), <UNK> when the
\* vocabulary lacks it.
C8_SpanAnonymization ==
    pc = "preprocessed" =>
        \A r \in 1..Len(file) :
            LET d == file[r]
                ids == processed[r][1]
            IN  /\ Len(ids) = Len(d.token)
                /\ \A i \in 0..(Len(d.token) - 1) :
                      ids[i + 1] =
                          IF d.obj_start <= i /\ i <= d.obj_end
                          THEN IdOf(ObjMask[d.obj_type])
                          ELSE IF d.subj_start <= i /\ i <= d.subj_end
                          THEN IdOf(SubjMask[d.subj_type])
                          ELSE IF opt.lower THEN IdOf(lower[d.token[i + 1]])
                          ELSE IdOf(d.token[i + 1])

\* "The" lowercased outside the spans, a subject span that the object span
\* overlaps, an out-of-vocabulary token
C8_Witness ==
    /\ pc = "preprocessed"
    /\ opt.lower
    /\ file[1].token = <<"The", "Zed", "Zed">>
    /\ file[1].subj_start = 1 /\ file[1].subj_end = 2
    /\ file[1].obj_start = 2 /\ file[1].obj_end = 2
    /\ processed[1][1] = <<6, 2, 5>>

-----------------------------------------------------------------------------
(* Properties of the loader and of predict (Spec). *)

\* the examples of the batch ret was made from, in their stored order
Stored == data[ret.key.val + 1]

\* C3: sort_all returns a permutation of 0..n-1 as the original indices, row
\* k of each of the eight fields is the field of the original example at
\* index orig_idx[k], and the token sequences come in non-increasing length,
\* those of equal length in descending original index.
C3_SortAll ==
    ret.status = "ok" =>
        LET n == Len(Stored)
        IN  /\ Len(ret.orig_idx) = n
            /\ {ret.orig_idx[k] : k \in 1..n} = 0..(n - 1)
            /\ Len(ret.batch) = 8
            /\ \A f \in 1..8 :
                  /\ Len(ret.batch[f]) = n
                  /\ \A k \in 1..n : ret.batch[f][k] = Stored[ret.orig_idx[k] + 1][f]
            /\ \A k \in 1..(n - 1) :
                  \/ Len(ret.batch[1][k]) > Len(ret.batch[1][k + 1])
                  \/ /\ Len(ret.batch[1][k]) = Len(ret.batch[1][k + 1])
                     /\ ret.orig_idx[k] > ret.orig_idx[k + 1]

\* a batch of two different examples of the same length
C3_Witness ==
    /\ ret.status = "ok"
    /\ ret.orig_idx = <<1, 0>>
    /\ Len(Stored[1][1]) = Len(Stored[2][1])
    /\ Stored[1] # Stored[2]

\* s followed by padding up to width m
Padded(s, m) == [j \in 1..m |-> IF j <= Len(s) THEN s[j] ELSE 0]

\* the longest token sequence of the stored batch
Width == CHOOSE m \in 0..MaxLongLen :
            /\ \E j \in 1..Len(Stored) : Len(Stored[j][1]) = m
            /\ \A j \in 1..Len(Stored) : Len(Stored[j][1]) <= m

\* out is the network's output term for stored example ex: its padded
\* fields, the words possibly dropped out
OutputFor(out, ex) ==
    /\ Len(out[1]) = Width
    /\ \A i \in 1..Width :
          IF i <= Len(ex[1]) THEN out[1][i] \in {ex[1][i], UNK_ID} ELSE out[1][i] = 0
    /\ evaluation => out[1] = Padded(ex[1], Width)
    /\ out[2] = [i \in 1..Width |-> out[1][i] = 0]
    /\ out[3] = Padded(ex[2], Width)
    /\ out[4] = Padded(ex[3], Width)
    /\ out[5] = Padded(ex[4], Width)
    /\ out[6] = Padded(ex[5], Width)
    /\ out[7] = Padded(ex[6], Width)
    /\ out[8] = Padded(ex[7], Width)

\* C4: predict with unsort=True on a batch __getitem__ returned puts at
\* position j the prediction and the probabilities computed for the example
\* that was at position j of the batch before sort_all.
C4_PredictUnsorts ==
    (pred.status = "ok" /\ pred.unsort) =>
        /\ Len(pred.predictions) = Len(Stored)
        /\ Len(pred.probs) = Len(Stored)
        /\ \A j \in 1..Len(Stored) :
              /\ OutputFor(pred.predictions[j].argmax, Stored[j])
              /\ OutputFor(pred.probs[j].softmax, Stored[j])
              /\ pred.probs[j].softmax = pred.predictions[j].argmax

\* an unsorted prediction for a batch whose order sort_all changed
C4_Witness ==
    /\ pred.status = "ok"
    /\ pred.unsort
    /\ ret.orig_idx = <<1, 0>>
    /\ pred.predictions[1] # pred.predictions[2]
    /\ Len(Stored[1][1]) < Len(Stored[2][1])

\* t is the tokens_list l as a matrix of n rows, as wide as the longest
\* sequence of l, every row its sequence followed by PAD
IsPaddedTensor(t, l, n) ==
    /\ Len(t) = n
    /\ Len(l) = n
    /\ \E m \in 0..MaxLongLen :
          /\ \E i \in 1..n : Len(l[i]) = m
          /\ \A i \in 1..n : Len(l[i]) <= m
          /\ \A i \in 1..n :
                /\ Len(t[i]) = m
                /\ \A j \in 1..m :
                      t[i][j] = IF j <= Len(l[i]) THEN l[i][j] ELSE 0

\* C5: every tensor of a batch is batch_size x M, M the longest sequence of
\* its list; entry (i, j) is the j-th element of sequence i when the sequence
\* has one and the padding id 0 otherwise.
C5_PaddedTensors ==
    ret.status = "ok" =>
        /\ IsPaddedTensor(ret.words, ret.words_list, Len(Stored))
        /\ IsPaddedTensor(ret.pos, ret.batch[2], Len(Stored))
        /\ IsPaddedTensor(ret.ner, ret.batch[3], Len(Stored))
        /\ IsPaddedTensor(ret.deprel, ret.batch[4], Len(Stored))
        /\ IsPaddedTensor(ret.subj_positions, ret.batch[5], Len(Stored))
        /\ IsPaddedTensor(ret.obj_positions, ret.batch[6], Len(Stored))
        /\ IsPaddedTensor(ret.src_pos, ret.batch[7], Len(Stored))

\* a batch of a two-token and a one-token sentence: the second row is padded
C5_Witness ==
    /\ ret.status = "ok"
    /\ Len(ret.batch[1]) = 2
    /\ Len(ret.batch[1][1]) = 2
    /\ Len(ret.batch[1][2]) = 1
    /\ ret.words[2][2] = 0
    /\ ret.words[1][2] # 0
    /\ ret.subj_positions[1][1] = -1

\* tensor t holds the sequences of l unaltered: row k starts with l[k]
Holds(t, l) ==
    /\ Len(t) = Len(l)
    /\ \A k \in 1..Len(l) : SubSeq(t[k], 1, Len(l[k])) = l[k]

\* C6: in evaluation the words of a returned batch are the preprocessed word
\* ids; in training every returned word id is the preprocessed id at its
\* position or <UNK> and the sentence lengths are unchanged; pos, ner,
\* deprel, the positions and the relations are never altered.
C6_WordDropoutOnly ==
    ret.status = "ok" =>
        /\ evaluation => ret.words_list = ret.batch[1] /\ Holds(ret.words, ret.batch[1])
        /\ Len(ret.words_list) = Len(ret.batch[1])
        /\ \A k \in 1..Len(ret.batch[1]) :
              /\ Len(ret.words_list[k]) = Len(ret.batch[1][k])
              /\ \A i \in 1..Len(ret.batch[1][k]) :
                    /\ ret.words_list[k][i] \in {ret.batch[1][k][i], UNK_ID}
                    /\ ret.words[k][i] \in {ret.batch[1][k][i], UNK_ID}
        /\ Holds(ret.pos, ret.batch[2])
        /\ Holds(ret.ner, ret.batch[3])
        /\ Holds(ret.deprel, ret.batch[4])
        /\ Holds(ret.subj_positions, ret.batch[5])
        /\ Holds(ret.obj_positions, ret.batch[6])
        /\ Holds(ret.src_pos, ret.batch[7])
        /\ ret.rels = ret.batch[8]

\* a training batch with one word dropped and one kept
C6_Witness ==
    /\ ret.status = "ok"
    /\ ~evaluation
    /\ Len(ret.batch[1]) = 2
    /\ ret.batch[1][1][1] # UNK_ID
    /\ ret.words[1][1] = UNK_ID
    /\ ret.batch[1][2][1] # UNK_ID
    /\ ret.words[2][1] = ret.batch[1][2][1]

\* C7: gold()[k*batch_size + j] is the label name of the relation of the
\* example at position j of batch k; the relation ids of a returned batch,
\* restored to the stored order through orig_idx, are the labels of gold()
\* at the places of that batch; in evaluation gold() is in file order.
C7_GoldInServedOrder ==
    pc # "start" =>
        /\ \A k \in 0..(Len(data) - 1) : \A j \in 0..(Len(data[k + 1]) - 1) :
              /\ k * batch_size + j + 1 \in DOMAIN gold
              /\ gold[k * batch_size + j + 1] = id2label[data[k + 1][j + 1][8]]
        /\ Len(gold) = num_examples
        /\ ret.status = "ok" =>
              \A r \in 1..Len(ret.rels) :
                  gold[ret.key.val * batch_size + ret.orig_idx[r] + 1]
                      = id2label[ret.rels[r]]
        /\ evaluation => gold = [i \in 1..Len(file) |-> file[i].relation]

\* training, three shuffled examples in two batches; the first batch, which
\* sort_all reordered, has two different labels
C7_Witness ==
    /\ ~evaluation
    /\ ret.status = "ok"
    /\ batch_size = 2
    /\ len = 2
    /\ ret.key.val = 0
    /\ ret.orig_idx = <<1, 0>>
    /\ gold # [i \in 1..Len(file) |-> file[i].relation]
    /\ gold[1] # gold[2]
    /\ gold[3] # gold[2]

\* "stored batches left unchanged" and the outcome of __getitem__ by key
C9_Outcome ==
    ret.status # "none" =>
        /\ ~(ret.key.type \in {"int", "bool"}) => ret.status = "TypeError"
        /\ (ret.key.type \in {"int", "bool"} /\ (ret.key.val < 0 \/ ret.key.val >= len))
              => ret.status = "IndexError"
        /\ (ret.key.type \in {"int", "bool"} /\ 0 <= ret.key.val /\ ret.key.val < len)
              => /\ ret.status = "ok"
                 /\ \A k \in 1..Len(Stored) :
                       \A f \in 1..8 : ret.batch[f][k] = Stored[ret.orig_idx[k] + 1][f]

\* C9: __getitem__(key) gets the batch with that index for an int key with
\* 0 <= key < len(loader) only; it raises TypeError for a non-int key and
\* IndexError for an int key below 0 or at or above len(loader); a call that
\* raises leaves the stored batches (and the labels) unchanged.
C9_GetItemErrors ==
    /\ []C9_Outcome
    /\ [][ret'.status \in {"TypeError", "IndexError"}
            => (data' = data /\ labels' = labels /\ num_examples' = num_examples)]_vars

\* the key just past the last batch raises IndexError
C9_Witness ==
    /\ ret.status = "IndexError"
    /\ ret.key.type = "int"
    /\ ret.key.val = len
    /\ len = 2

\* the batches of the loader one after the other
RECURSIVE Flat(_)
Flat(batches) == IF batches = <<>> THEN <<>> ELSE Head(batches) \o Flat(Tail(batches))

\* how many times x occurs in the list s
Occurrences(s, x) == Cardinality({i \in 1..Len(s) : s[i] = x})

\* C10: the loader holds ceil(n/b) batches, each but the last of b examples,
\* the last of 1..b, none empty; together they hold each example once
\* (num_examples = n), in evaluation in input order; iterating yields
\* __getitem__(0), __getitem__(1), ... and ends after len(loader) batches.
C10_BatchesPartition ==
    pc # "start" =>
        LET n == Len(file)
            examples == preprocess(file, opt.lower)
            flat == Flat(data)
        IN  /\ len = (n + batch_size - 1) \div batch_size
            /\ \A k \in 1..len :
                  /\ Len(data[k]) >= 1
                  /\ Len(data[k]) <= batch_size
                  /\ k < len => Len(data[k]) = batch_size
            /\ num_examples = n
            /\ Len(flat) = n
            /\ \A i \in 1..n :
                  /\ Occurrences(flat, flat[i]) = Occurrences(examples, flat[i])
                  /\ Occurrences(flat, examples[i]) = Occurrences(examples, examples[i])
            /\ evaluation => flat = examples
            /\ pc = "iterating" =>
                  /\ gen.i <= len
                  /\ gen.i = 0 => ret = None
                  /\ gen.i > 0 =>
                        /\ ret.status = "ok"
                        /\ ret.key = [type |-> "int", val |-> gen.i - 1]
                        /\ \A f \in 1..8 : \A k \in 1..Len(Stored) :
                              ret.batch[f][k] = Stored[ret.orig_idx[k] + 1][f]
            /\ pc = "exhausted" => gen.i = len /\ gen.ended

\* three examples in batches of two, shuffled, iterated to the end
C10_Witness ==
    /\ pc = "exhausted"
    /\ ~evaluation
    /\ batch_size = 2
    /\ len = 2
    /\ Len(data[1]) = 2
    /\ Len(data[2]) = 1
    /\ Flat(data) # preprocess(file, opt.lower)
    /\ ret.key.val = 1

=============================================================================
